---- MODULE Spec2Model ----
(***************************************************************************)
(* Model of the conversation handling of gpt-discord-bot (src/main.rs):    *)
(* the two provider histories behind tokio mutexes, the chat / mistral     *)
(* exchanges (user push, token-budget eviction, remote completion, reply   *)
(* cleanup, assistant push, chunked output), the bonk resets, and the pure *)
(* helpers sanitize_input and the output chunking.                         *)
(*                                                                         *)
(* Text is a sequence of characters.  A character is a one-element string; *)
(* "U+00E9" stands for a character whose UTF-8 encoding has two bytes.     *)
(***************************************************************************)
EXTENDS Integers, Sequences, FiniteSets, TLC

VARIABLES
    HISTORY_MAX_TOKEN, \* the configured history token ceiling (main.rs:37)
    history,           \* provider -> Vec of turns (HISTORY, MISTRAL_HISTORY)
    owner,             \* provider -> task holding the MutexGuard, or NoTask
    waitq,             \* provider -> FIFO queue of tasks awaiting lock()
    pc,                \* task -> position in its handler
    cmd,               \* task -> the command it runs (kind, author, message)
    request,           \* task -> request.messages of the handler
    text,              \* task -> the handler's local `text`
    chunks,            \* task -> messages still to be passed to ctx.say
    out,               \* task -> messages ctx.say has delivered so far
    pre,               \* task -> history as found when the lock was acquired
    reply,             \* task -> the content the provider returned
    evicted,           \* task -> number of history.remove(1) calls so far
    panic,             \* task -> what made the handler panic, or "none"
    nCmds,             \* number of commands submitted so far
    fArg, fRet, fOut, fPc  \* argument, result, output, position: pure specs

mainVars == <<HISTORY_MAX_TOKEN, history, owner, waitq, pc, cmd, request,
              text, chunks, out, pre, reply, evicted, panic, nCmds>>
pureVars == <<fArg, fRet, fOut, fPc>>
vars == <<mainVars, pureVars>>

(***************************************************************************)
(* Bounds of the model.                                                    *)
(***************************************************************************)
NTasks == 2
MaxCmds == 2
MaxCeiling == 6
MaxNameLen == 3
MaxTextLen == 10

(***************************************************************************)
(* Program constants.  DISCORD_CHAR_LIMIT is 1900 in the source; the model *)
(* scales it down so that texts of one, two and three chunks are           *)
(* enumerable.                                                             *)
(***************************************************************************)
DISCORD_CHAR_LIMIT == 3
NAME_MAX == 64

Tasks == 1..NTasks
NoTask == 0
Providers == {"openai", "mistral"}

QUOTE == "\""
MULTIBYTE == "U+00E9"

\* char::len_utf8
Utf8Len(c) == IF c = MULTIBYTE THEN 2 ELSE 1

RECURSIVE ByteLen(_)
\* str::len: the length of a text in bytes
ByteLen(s) == IF s = <<>> THEN 0 ELSE Utf8Len(Head(s)) + ByteLen(Tail(s))

RECURSIVE Concat(_)
\* concatenation of a sequence of texts
Concat(ss) == IF ss = <<>> THEN <<>> ELSE Head(ss) \o Concat(Tail(ss))

RECURSIVE Repeat(_, _)
Repeat(c, n) == IF n = 0 THEN <<>> ELSE <<c>> \o Repeat(c, n - 1)

(***************************************************************************)
(* sanitize_input (main.rs:136-153)                                        *)
(***************************************************************************)
\* the characters of the model for which char::is_ascii_alphanumeric holds
AsciiAlnum == {"a", "b", "s", "B", "Z", "0", "9"}

\* variant of IsAllowedChar: the hyphen is not kept
IsAllowedCharNoHyphen(c) == c \in AsciiAlnum \/ c = "_"

\* the filter closure of main.rs:148
IsAllowedChar(c) == c \in AsciiAlnum \/ c = "_" \/ c = "-"

\* Regex ^[a-zA-Z0-9_-]{1,64}$ of main.rs:138
PatternIsMatch(input) ==
    /\ Len(input) >= 1
    /\ Len(input) <= NAME_MAX
    /\ \A i \in 1..Len(input) :
          input[i] \in AsciiAlnum \/ input[i] = "_" \/ input[i] = "-"

sanitize_input(input) ==
    IF PatternIsMatch(input)
    THEN input
    ELSE SelectSeq(input, IsAllowedChar)

(***************************************************************************)
(* replace_emoji (main.rs:155-161), with the table scaled to one entry:    *)
(* the shortcode ":" is replaced by "<:>".                                 *)
(***************************************************************************)
EMOJI_REPLACEMENTS == << << <<":">>, <<"<", ":", ">">> >> >>

RECURSIVE StrReplace(_, _, _)
\* str::replace: every non-overlapping match, left to right
StrReplace(s, search, replace) ==
    IF Len(s) < Len(search) THEN s
    ELSE IF SubSeq(s, 1, Len(search)) = search
         THEN replace \o StrReplace(SubSeq(s, Len(search) + 1, Len(s)),
                                    search, replace)
         ELSE <<Head(s)>> \o StrReplace(Tail(s), search, replace)

RECURSIVE ReplaceFrom(_, _)
ReplaceFrom(message, i) ==
    IF i > Len(EMOJI_REPLACEMENTS) THEN message
    ELSE ReplaceFrom(StrReplace(message, EMOJI_REPLACEMENTS[i][1],
                                EMOJI_REPLACEMENTS[i][2]), i + 1)

replace_emoji(message) == ReplaceFrom(message, 1)

(***************************************************************************)
(* Turns and the token count of a serialized message list.                 *)
(***************************************************************************)
SYSTEM_PROMPT == <<"s">>

\* ChatCompletionRequestSystemMessageArgs ... build (main.rs:583-586)
SystemTurn == [role |-> "system", content |-> SYSTEM_PROMPT, name |-> {}]

\* ChatCompletionRequestUserMessageArgs of chat (main.rs:303-307)
UserTurnNamed(message, author) ==
    [role |-> "user", content |-> message, name |-> {sanitize_input(author)}]

\* ChatCompletionRequestUserMessageArgs of mistral (main.rs:407-410)
UserTurnPlain(message) ==
    [role |-> "user", content |-> message, name |-> {}]

\* ChatCompletionRequestAssistantMessageArgs (main.rs:356-359)
AssistantTurn(t) == [role |-> "assistant", content |-> t, name |-> {}]

\* tokens of one serialized turn: one for the object and its role, one per
\* character of content, one for a name field
TurnTokens(turn) ==
    1 + Len(turn.content) + (IF turn.name = {} THEN 0 ELSE 1)

RECURSIVE TokenCount(_)
\* bpe.encode_with_special_tokens(serde_json::to_string(messages)).len()
TokenCount(messages) ==
    IF messages = <<>> THEN 0
    ELSE TurnTokens(Head(messages)) + TokenCount(Tail(messages))

SystemTokens == TokenCount(<<SystemTurn>>)

\* variant of RemoveAt: the index is taken as counted from 1
RemoveAtFromOne(v, index) ==
    SubSeq(v, 1, index - 1) \o SubSeq(v, index + 1, Len(v))

\* variant of RemoveAt: the newest turn is removed
RemoveAtNewest(v, index) == SubSeq(v, 1, Len(v) - 1)

\* Vec::remove(index), index counted from 0, for an index in range
RemoveAt(v, index) ==
    SubSeq(v, 1, index) \o SubSeq(v, index + 2, Len(v))

\* Vec::remove(index) panics when the index is out of range
RemovePanics(v, index) == index >= Len(v)

\* variant of Truncate: one turn too many is kept
TruncateKeepsOneMore(v, len) ==
    IF Len(v) > len + 1 THEN SubSeq(v, 1, len + 1) ELSE v

\* Vec::truncate(len)
Truncate(v, len) == IF Len(v) > len THEN SubSeq(v, 1, len) ELSE v

(***************************************************************************)
(* Reply cleanup (main.rs:346-353).  text[1..] drops the first byte, which *)
(* is the quotation mark; text[..1] keeps the first byte and panics when   *)
(* byte 1 is not a character boundary.                                     *)
(***************************************************************************)
StripLeading(t) ==
    IF t # <<>> /\ Head(t) = QUOTE THEN Tail(t) ELSE t

EndsWithQuote(t) == t # <<>> /\ t[Len(t)] = QUOTE

SliceToOnePanics(t) == Utf8Len(Head(t)) # 1

SliceToOne(t) == <<Head(t)>>

CleanPanics(t) ==
    EndsWithQuote(StripLeading(t)) /\ SliceToOnePanics(StripLeading(t))

Clean(t) ==
    IF EndsWithQuote(StripLeading(t))
    THEN SliceToOne(StripLeading(t))
    ELSE StripLeading(t)

(***************************************************************************)
(* Output formatting and chunking (main.rs:363-380).  The literals of the  *)
(* format string are one character each in the model; "@" is the author    *)
(* mention.                                                                *)
(***************************************************************************)
Format(message, t) == <<">">> \o message \o <<"@">> \o t

RECURSIVE SliceChunksExact(_, _)
\* variant of SliceChunks: slice::chunks_exact(n), which leaves the
\* remainder out
SliceChunksExact(s, n) ==
    IF Len(s) < n THEN <<>>
    ELSE <<SubSeq(s, 1, n)>> \o SliceChunksExact(SubSeq(s, n + 1, Len(s)), n)

RECURSIVE SliceChunksBytes(_, _)
\* variant of SliceChunks: pieces of at most n bytes instead of n characters
SliceChunksBytes(s, n) ==
    IF s = <<>> THEN <<>>
    ELSE IF ByteLen(s) <= n THEN <<s>>
    ELSE LET fits == {k \in 1..Len(s) : ByteLen(SubSeq(s, 1, k)) <= n}
             k == IF fits = {} THEN 1
                  ELSE CHOOSE m \in fits : \A j \in fits : j <= m
         IN  <<SubSeq(s, 1, k)>> \o SliceChunksBytes(SubSeq(s, k + 1, Len(s)), n)

RECURSIVE SliceChunks(_, _)
\* slice::chunks(n) over the characters of a text
SliceChunks(s, n) ==
    IF s = <<>> THEN <<>>
    ELSE IF Len(s) <= n THEN <<s>>
    ELSE <<SubSeq(s, 1, n)>> \o SliceChunks(SubSeq(s, n + 1, Len(s)), n)

\* the messages the if/else of main.rs:368-380 hands to ctx.say, in order
Messages(t) ==
    IF ByteLen(t) > DISCORD_CHAR_LIMIT
    THEN SliceChunks(t, DISCORD_CHAR_LIMIT)
    ELSE <<t>>

\* the fallback of main.rs:384-388
Fallback(message) == <<">">> \o message \o <<"@">> \o <<"!">>

\* the confirmation of main.rs:505 and main.rs:517
BonkText == <<"B">>

(***************************************************************************)
(* Inputs of the handlers.                                                 *)
(***************************************************************************)
\* <<author display name, message>> of a chat command
ChatInputs == { << <<"a", "b">>, <<":">> >>,
                << <<MULTIBYTE>>, <<"a", "a", "a", "a">> >> }
\* contents the provider may return
Replies == {<<"a">>, <<QUOTE, "a", "b", QUOTE>>, <<MULTIBYTE, QUOTE>>}
\* values of the HISTORY_MAX_TOKEN setting: below the system turn's tokens,
\* exactly them, and room for a few turns
Ceilings == {SystemTokens - 1, SystemTokens, MaxCeiling}

ChatKinds == {"chat", "mistral"}
BonkKinds == {"bonk", "bonk_mistral"}

\* variant of ProviderOf: every command locks HISTORY
ProviderOfShared(kind) == "openai"

\* the static each command locks (main.rs:301, 405, 501, 513)
ProviderOf(kind) ==
    IF kind \in {"chat", "bonk"} THEN "openai" ELSE "mistral"

NoCmd == [kind |-> "none", author |-> <<>>, message |-> <<>>]

\* variant of UserTurn: the name is attached in the mistral flow instead
UserTurnSwapped(c) ==
    IF c.kind = "mistral"
    THEN UserTurnNamed(c.message, c.author)
    ELSE UserTurnPlain(c.message)

\* the user turn each flow pushes (main.rs:302-308, 406-411)
UserTurn(c) ==
    IF c.kind = "chat"
    THEN UserTurnNamed(c.message, c.author)
    ELSE UserTurnPlain(c.message)

\* dropping the MutexGuard, explicitly or when the handler ends or unwinds
Release(t) ==
    [p \in Providers |-> IF owner[p] = t THEN NoTask ELSE owner[p]]

(***************************************************************************)
(* The effect of one whole exchange on a history, as the handler computes  *)
(* it when nothing else runs (main.rs:301-361, 405-464).                   *)
(***************************************************************************)
RECURSIVE EnforceLoop(_)
\* the while loop of main.rs:321-336, up to its exit or its panic
EnforceLoop(h) ==
    IF TokenCount(h) > HISTORY_MAX_TOKEN
    THEN IF RemovePanics(h, 1) THEN h ELSE EnforceLoop(RemoveAt(h, 1))
    ELSE h

\* the loop ends in the panic of history.remove(1)
EnforcePanics(h) == TokenCount(EnforceLoop(h)) > HISTORY_MAX_TOKEN

\* what create(request).await may produce
Outcomes ==
    [kind : {"ok"}, reply : Replies]
        \cup [kind : {"err", "no_candidate", "no_text"}, reply : {<<>>}]

\* the history an exchange of command c leaves when it starts from h
ExchangeHistory(h, c, outcome) ==
    LET enforced == EnforceLoop(Append(h, UserTurn(c))) IN
    IF /\ ~EnforcePanics(Append(h, UserTurn(c)))
       /\ outcome.kind = "ok"
       /\ ~CleanPanics(outcome.reply)
    THEN Append(enforced, AssistantTurn(Clean(outcome.reply)))
    ELSE enforced

(***************************************************************************)
(* State after main() has installed the system turn in both histories      *)
(* (main.rs:582-594) and before any command runs.                          *)
(***************************************************************************)
InitMain ==
    /\ history = [p \in Providers |-> <<SystemTurn>>]
    /\ owner = [p \in Providers |-> NoTask]
    /\ waitq = [p \in Providers |-> <<>>]
    /\ pc = [t \in Tasks |-> "idle"]
    /\ cmd = [t \in Tasks |-> NoCmd]
    /\ request = [t \in Tasks |-> <<>>]
    /\ text = [t \in Tasks |-> <<>>]
    /\ chunks = [t \in Tasks |-> <<>>]
    /\ out = [t \in Tasks |-> <<>>]
    /\ pre = [t \in Tasks |-> <<>>]
    /\ reply = [t \in Tasks |-> <<>>]
    /\ evicted = [t \in Tasks |-> 0]
    /\ panic = [t \in Tasks |-> "none"]
    /\ nCmds = 0

PureOff ==
    /\ fArg = <<>>
    /\ fRet = <<>>
    /\ fOut = <<>>
    /\ fPc = "off"

Init ==
    /\ HISTORY_MAX_TOKEN \in Ceilings
    /\ InitMain
    /\ PureOff

(***************************************************************************)
(* A command arrives: the framework spawns the handler, which (for the     *)
(* chat flows, after ctx.defer) calls lock() on its provider's mutex and   *)
(* joins the mutex's FIFO queue.  Tasks have no identity in the program:  *)
(* a new handler takes the first free task of the model.                   *)
(***************************************************************************)
Submit(t) ==
    /\ pc[t] = "idle"
    /\ \A u \in Tasks : u < t => pc[u] # "idle"
    /\ nCmds < MaxCmds
    /\ \E c \in {[kind |-> k, author |-> i[1], message |-> i[2]] :
                     k \in ChatKinds, i \in ChatInputs}
              \cup [kind : BonkKinds, author : {<<>>}, message : {<<>>}] :
          /\ cmd' = [cmd EXCEPT ![t] = c]
          /\ waitq' = [waitq EXCEPT ![ProviderOf(c.kind)] = Append(@, t)]
    /\ pc' = [pc EXCEPT ![t] = "lock"]
    /\ nCmds' = nCmds + 1
    /\ UNCHANGED <<HISTORY_MAX_TOKEN, history, owner, request, text, chunks,
                   out, pre, reply, evicted, panic, pureVars>>

\* variant of Acquire: the history is used without waiting for the guard
AcquireUnguarded(t) ==
    LET p == ProviderOf(cmd[t].kind) IN
    /\ pc[t] = "lock"
    /\ cmd[t].kind \in ChatKinds
    /\ waitq[p] # <<>> /\ Head(waitq[p]) = t
    /\ owner' = [owner EXCEPT ![p] = t]
    /\ waitq' = [waitq EXCEPT ![p] = Tail(@)]
    /\ pre' = [pre EXCEPT ![t] = history[p]]
    /\ history' = [history EXCEPT ![p] = Append(@, UserTurn(cmd[t]))]
    /\ request' = [request EXCEPT ![t] = history'[p]]
    /\ pc' = [pc EXCEPT ![t] = "enforce"]
    /\ UNCHANGED <<HISTORY_MAX_TOKEN, cmd, text, chunks, out, reply, evicted,
                   panic, nCmds, pureVars>>

\* lock() returns in a chat flow; the user turn is pushed and the first
\* request built (main.rs:301-320, 405-423)
Acquire(t) ==
    LET p == ProviderOf(cmd[t].kind) IN
    /\ pc[t] = "lock"
    /\ cmd[t].kind \in ChatKinds
    /\ owner[p] = NoTask
    /\ waitq[p] # <<>> /\ Head(waitq[p]) = t
    /\ owner' = [owner EXCEPT ![p] = t]
    /\ waitq' = [waitq EXCEPT ![p] = Tail(@)]
    /\ pre' = [pre EXCEPT ![t] = history[p]]
    /\ history' = [history EXCEPT ![p] = Append(@, UserTurn(cmd[t]))]
    /\ request' = [request EXCEPT ![t] = history'[p]]
    /\ pc' = [pc EXCEPT ![t] = "enforce"]
    /\ UNCHANGED <<HISTORY_MAX_TOKEN, cmd, text, chunks, out, reply, evicted,
                   panic, nCmds, pureVars>>

\* variant of Evict: the request and the count are not rebuilt after the
\* removal
EvictStaleRequest(t) ==
    LET p == ProviderOf(cmd[t].kind) IN
    /\ pc[t] = "enforce"
    /\ TokenCount(request[t]) > HISTORY_MAX_TOKEN
    /\ ~RemovePanics(history[p], 1)
    /\ history' = [history EXCEPT ![p] = RemoveAt(@, 1)]
    /\ evicted' = [evicted EXCEPT ![t] = @ + 1]
    /\ UNCHANGED <<HISTORY_MAX_TOKEN, owner, waitq, pc, cmd, request, text,
                   chunks, out, pre, reply, panic, nCmds, pureVars>>

\* one iteration of the while loop (main.rs:321-336, 424-439)
Evict(t) ==
    LET p == ProviderOf(cmd[t].kind) IN
    /\ pc[t] = "enforce"
    /\ TokenCount(request[t]) > HISTORY_MAX_TOKEN
    /\ ~RemovePanics(history[p], 1)
    /\ history' = [history EXCEPT ![p] = RemoveAt(@, 1)]
    /\ request' = [request EXCEPT ![t] = history'[p]]
    /\ evicted' = [evicted EXCEPT ![t] = @ + 1]
    /\ UNCHANGED <<HISTORY_MAX_TOKEN, owner, waitq, pc, cmd, text, chunks,
                   out, pre, reply, panic, nCmds, pureVars>>

\* history.remove(1) on a history of length 1 panics; the guard is dropped
\* while the handler unwinds
EvictPanic(t) ==
    LET p == ProviderOf(cmd[t].kind) IN
    /\ pc[t] = "enforce"
    /\ TokenCount(request[t]) > HISTORY_MAX_TOKEN
    /\ RemovePanics(history[p], 1)
    /\ pc' = [pc EXCEPT ![t] = "panicked"]
    /\ panic' = [panic EXCEPT ![t] = "remove_out_of_range"]
    /\ owner' = Release(t)
    /\ UNCHANGED <<HISTORY_MAX_TOKEN, history, waitq, cmd, request, text,
                   chunks, out, pre, reply, evicted, nCmds, pureVars>>

\* variant of Dispatch: an `if` in place of the `while`, so the request
\* goes out after one eviction
DispatchAfterOneEviction(t) ==
    /\ pc[t] = "enforce"
    /\ \/ ~(TokenCount(request[t]) > HISTORY_MAX_TOKEN)
       \/ evicted[t] >= 1
    /\ pc' = [pc EXCEPT ![t] = "inflight"]
    /\ UNCHANGED <<HISTORY_MAX_TOKEN, history, owner, waitq, cmd, request,
                   text, chunks, out, pre, reply, evicted, panic, nCmds,
                   pureVars>>

\* variant of Dispatch: the request goes out without the while loop
DispatchWithoutEnforcement(t) ==
    /\ pc[t] = "enforce"
    /\ pc' = [pc EXCEPT ![t] = "inflight"]
    /\ UNCHANGED <<HISTORY_MAX_TOKEN, history, owner, waitq, cmd, request,
                   text, chunks, out, pre, reply, evicted, panic, nCmds,
                   pureVars>>

\* the loop condition is false: chat().create(request) is awaited
\* (main.rs:338, 441)
Dispatch(t) ==
    /\ pc[t] = "enforce"
    /\ ~(TokenCount(request[t]) > HISTORY_MAX_TOKEN)
    /\ pc' = [pc EXCEPT ![t] = "inflight"]
    /\ UNCHANGED <<HISTORY_MAX_TOKEN, history, owner, waitq, cmd, request,
                   text, chunks, out, pre, reply, evicted, panic, nCmds,
                   pureVars>>

\* Ok(response) with a first choice that has content (main.rs:339-367)
RemoteOk(t) ==
    LET p == ProviderOf(cmd[t].kind) IN
    /\ pc[t] = "inflight"
    /\ \E r \in Replies :
          /\ ~CleanPanics(r)
          /\ reply' = [reply EXCEPT ![t] = r]
          /\ history' = [history EXCEPT ![p] = Append(@, AssistantTurn(Clean(r)))]
          /\ text' = [text EXCEPT ![t] =
                         replace_emoji(Format(cmd[t].message, Clean(r)))]
    /\ chunks' = [chunks EXCEPT ![t] = Messages(text'[t])]
    /\ owner' = Release(t)
    /\ pc' = [pc EXCEPT ![t] = "say"]
    /\ UNCHANGED <<HISTORY_MAX_TOKEN, waitq, cmd, request, out, pre, evicted,
                   panic, nCmds, pureVars>>

\* Ok(response) whose content makes text[..1] slice inside a character
RemoteOkPanic(t) ==
    /\ pc[t] = "inflight"
    /\ \E r \in Replies :
          /\ CleanPanics(r)
          /\ reply' = [reply EXCEPT ![t] = r]
    /\ pc' = [pc EXCEPT ![t] = "panicked"]
    /\ panic' = [panic EXCEPT ![t] = "slice_boundary"]
    /\ owner' = Release(t)
    /\ UNCHANGED <<HISTORY_MAX_TOKEN, history, waitq, cmd, request, text,
                   chunks, out, pre, evicted, nCmds, pureVars>>

\* Ok(response) with an empty choices list: response.choices[0] panics
RemoteNoCandidate(t) ==
    /\ pc[t] = "inflight"
    /\ pc' = [pc EXCEPT ![t] = "panicked"]
    /\ panic' = [panic EXCEPT ![t] = "no_candidate"]
    /\ owner' = Release(t)
    /\ UNCHANGED <<HISTORY_MAX_TOKEN, history, waitq, cmd, request, text,
                   chunks, out, pre, reply, evicted, nCmds, pureVars>>

\* Ok(response) whose first choice has no content: unwrap() panics
RemoteNoText(t) ==
    /\ pc[t] = "inflight"
    /\ pc' = [pc EXCEPT ![t] = "panicked"]
    /\ panic' = [panic EXCEPT ![t] = "no_text"]
    /\ owner' = Release(t)
    /\ UNCHANGED <<HISTORY_MAX_TOKEN, history, waitq, cmd, request, text,
                   chunks, out, pre, reply, evicted, nCmds, pureVars>>

\* variant of RemoteErr: an empty assistant turn is pushed on failure
RemoteErrPushesTurn(t) ==
    LET p == ProviderOf(cmd[t].kind) IN
    /\ pc[t] = "inflight"
    /\ history' = [history EXCEPT ![p] = Append(@, AssistantTurn(<<>>))]
    /\ chunks' = [chunks EXCEPT ![t] = <<Fallback(cmd[t].message)>>]
    /\ pc' = [pc EXCEPT ![t] = "say_err"]
    /\ UNCHANGED <<HISTORY_MAX_TOKEN, owner, waitq, cmd, request,
                   text, out, pre, reply, evicted, panic, nCmds, pureVars>>

\* Err(e): the fallback is about to be sent, the guard is still alive
\* (main.rs:382-390, 485-493)
RemoteErr(t) ==
    /\ pc[t] = "inflight"
    /\ chunks' = [chunks EXCEPT ![t] = <<Fallback(cmd[t].message)>>]
    /\ pc' = [pc EXCEPT ![t] = "say_err"]
    /\ UNCHANGED <<HISTORY_MAX_TOKEN, history, owner, waitq, cmd, request,
                   text, out, pre, reply, evicted, panic, nCmds, pureVars>>

\* variant of Say: the messages are taken from the end of the list
SayLastFirst(t) ==
    /\ pc[t] = "say"
    /\ chunks[t] # <<>>
    /\ out' = [out EXCEPT ![t] = Append(@, chunks[t][Len(chunks[t])])]
    /\ chunks' = [chunks EXCEPT ![t] = SubSeq(@, 1, Len(@) - 1)]
    /\ pc' = [pc EXCEPT ![t] = IF Len(chunks[t]) = 1 THEN "ok" ELSE "say"]
    /\ UNCHANGED <<HISTORY_MAX_TOKEN, history, owner, waitq, cmd, request,
                   text, pre, reply, evicted, panic, nCmds, pureVars>>

\* ctx.say(chunk).await succeeds for the next message of the reply
Say(t) ==
    /\ pc[t] = "say"
    /\ chunks[t] # <<>>
    /\ out' = [out EXCEPT ![t] = Append(@, Head(chunks[t]))]
    /\ chunks' = [chunks EXCEPT ![t] = Tail(@)]
    /\ pc' = [pc EXCEPT ![t] = IF Tail(chunks[t]) = <<>> THEN "ok" ELSE "say"]
    /\ UNCHANGED <<HISTORY_MAX_TOKEN, history, owner, waitq, cmd, request,
                   text, pre, reply, evicted, panic, nCmds, pureVars>>

\* ctx.say(chunk).await? fails: the handler returns the error
SayFail(t) ==
    /\ pc[t] = "say"
    /\ pc' = [pc EXCEPT ![t] = "err"]
    /\ UNCHANGED <<HISTORY_MAX_TOKEN, history, owner, waitq, cmd, request,
                   text, chunks, out, pre, reply, evicted, panic, nCmds,
                   pureVars>>

\* variant of SayErr: the guard outlives the handler
SayErrKeepsGuard(t) ==
    /\ pc[t] = "say_err"
    /\ \E sent \in BOOLEAN :
          /\ out' = [out EXCEPT ![t] = IF sent THEN Append(@, Head(chunks[t]))
                                       ELSE @]
          /\ pc' = [pc EXCEPT ![t] = IF sent THEN "ok" ELSE "err"]
    /\ chunks' = [chunks EXCEPT ![t] = <<>>]
    /\ UNCHANGED <<HISTORY_MAX_TOKEN, history, owner, waitq, cmd, request,
                   text, pre, reply, evicted, panic, nCmds, pureVars>>

\* the fallback is sent (or fails to be); the handler returns and the
\* guard goes out of scope (main.rs:384-392)
SayErr(t) ==
    /\ pc[t] = "say_err"
    /\ \E sent \in BOOLEAN :
          /\ out' = [out EXCEPT ![t] = IF sent THEN Append(@, Head(chunks[t]))
                                       ELSE @]
          /\ pc' = [pc EXCEPT ![t] = IF sent THEN "ok" ELSE "err"]
    /\ chunks' = [chunks EXCEPT ![t] = <<>>]
    /\ owner' = Release(t)
    /\ UNCHANGED <<HISTORY_MAX_TOKEN, history, waitq, cmd, request, text,
                   pre, reply, evicted, panic, nCmds, pureVars>>

\* variant of Bonk: the history is truncated without holding the lock
BonkUnguarded(t) ==
    LET p == ProviderOf(cmd[t].kind)
        Other(u) == u # t
    IN
    /\ pc[t] = "lock"
    /\ cmd[t].kind \in BonkKinds
    /\ waitq' = [waitq EXCEPT ![p] = SelectSeq(@, Other)]
    /\ pre' = [pre EXCEPT ![t] = history[p]]
    /\ history' = [history EXCEPT ![p] = Truncate(@, 1)]
    /\ chunks' = [chunks EXCEPT ![t] = <<BonkText>>]
    /\ pc' = [pc EXCEPT ![t] = "say_bonk"]
    /\ UNCHANGED <<HISTORY_MAX_TOKEN, owner, cmd, request, text, out, reply,
                   evicted, panic, nCmds, pureVars>>

\* bonk / bonk_mistral up to drop(history) (main.rs:501-504, 513-516)
Bonk(t) ==
    LET p == ProviderOf(cmd[t].kind) IN
    /\ pc[t] = "lock"
    /\ cmd[t].kind \in BonkKinds
    /\ owner[p] = NoTask
    /\ waitq[p] # <<>> /\ Head(waitq[p]) = t
    /\ waitq' = [waitq EXCEPT ![p] = Tail(@)]
    /\ pre' = [pre EXCEPT ![t] = history[p]]
    /\ history' = [history EXCEPT ![p] = Truncate(@, 1)]
    /\ chunks' = [chunks EXCEPT ![t] = <<BonkText>>]
    /\ pc' = [pc EXCEPT ![t] = "say_bonk"]
    /\ UNCHANGED <<HISTORY_MAX_TOKEN, owner, cmd, request, text, out, reply,
                   evicted, panic, nCmds, pureVars>>

\* the confirmation of a reset (main.rs:505-507, 517-519)
SayBonk(t) ==
    /\ pc[t] = "say_bonk"
    /\ \E sent \in BOOLEAN :
          /\ out' = [out EXCEPT ![t] = IF sent THEN Append(@, Head(chunks[t]))
                                       ELSE @]
          /\ pc' = [pc EXCEPT ![t] = IF sent THEN "ok" ELSE "err"]
    /\ chunks' = [chunks EXCEPT ![t] = <<>>]
    /\ UNCHANGED <<HISTORY_MAX_TOKEN, history, owner, waitq, cmd, request,
                   text, pre, reply, evicted, panic, nCmds, pureVars>>

\* the handler's task is over and its locals are gone
Retire(t) ==
    /\ pc[t] \in {"ok", "err", "panicked"}
    /\ pc' = [pc EXCEPT ![t] = "idle"]
    /\ cmd' = [cmd EXCEPT ![t] = NoCmd]
    /\ request' = [request EXCEPT ![t] = <<>>]
    /\ text' = [text EXCEPT ![t] = <<>>]
    /\ chunks' = [chunks EXCEPT ![t] = <<>>]
    /\ out' = [out EXCEPT ![t] = <<>>]
    /\ pre' = [pre EXCEPT ![t] = <<>>]
    /\ reply' = [reply EXCEPT ![t] = <<>>]
    /\ evicted' = [evicted EXCEPT ![t] = 0]
    /\ panic' = [panic EXCEPT ![t] = "none"]
    /\ UNCHANGED <<HISTORY_MAX_TOKEN, history, owner, waitq, nCmds, pureVars>>

Next ==
    \/ \E t \in Tasks : Submit(t)
    \/ \E t \in Tasks : Acquire(t)
    \/ \E t \in Tasks : Evict(t)
    \/ \E t \in Tasks : EvictPanic(t)
    \/ \E t \in Tasks : Dispatch(t)
    \/ \E t \in Tasks : RemoteOk(t)
    \/ \E t \in Tasks : RemoteOkPanic(t)
    \/ \E t \in Tasks : RemoteNoCandidate(t)
    \/ \E t \in Tasks : RemoteNoText(t)
    \/ \E t \in Tasks : RemoteErr(t)
    \/ \E t \in Tasks : Say(t)
    \/ \E t \in Tasks : SayFail(t)
    \/ \E t \in Tasks : SayErr(t)
    \/ \E t \in Tasks : Bonk(t)
    \/ \E t \in Tasks : SayBonk(t)
    \/ \E t \in Tasks : Retire(t)

Spec == Init /\ [][Next]_vars

TypeOK ==
    /\ HISTORY_MAX_TOKEN \in Ceilings
    /\ \A p \in Providers : owner[p] \in Tasks \cup {NoTask}
    /\ \A t \in Tasks : pc[t] \in {"idle", "lock", "enforce", "inflight",
                                   "say", "say_err", "say_bonk", "ok", "err",
                                   "panicked"}
    /\ nCmds \in 0..MaxCmds

(***************************************************************************)
(* The handlers of one provider under fair scheduling: the runtime polls   *)
(* every task that can continue, the mutex hands the lock over in FIFO     *)
(* order, and an awaited call (completion or ctx.say) returns a result.    *)
(***************************************************************************)
LiveCmds ==
    { [kind |-> "chat", author |-> <<"a", "b">>, message |-> <<":">>],
      [kind |-> "bonk", author |-> <<>>, message |-> <<>>] }

SubmitLive(t) ==
    /\ pc[t] = "idle"
    /\ nCmds < MaxCmds
    /\ \E c \in LiveCmds :
          /\ cmd' = [cmd EXCEPT ![t] = c]
          /\ waitq' = [waitq EXCEPT ![ProviderOf(c.kind)] = Append(@, t)]
    /\ pc' = [pc EXCEPT ![t] = "lock"]
    /\ nCmds' = nCmds + 1
    /\ UNCHANGED <<HISTORY_MAX_TOKEN, history, owner, request, text, chunks,
                   out, pre, reply, evicted, panic, pureVars>>

\* any step of a handler that has been started
Run(t) ==
    \/ Acquire(t) \/ Evict(t) \/ EvictPanic(t) \/ Dispatch(t)
    \/ RemoteOk(t) \/ RemoteOkPanic(t) \/ RemoteNoCandidate(t)
    \/ RemoteNoText(t) \/ RemoteErr(t)
    \/ Say(t) \/ SayFail(t) \/ SayErr(t)
    \/ Bonk(t) \/ SayBonk(t) \/ Retire(t)

NextLive ==
    \/ \E t \in Tasks : SubmitLive(t)
    \/ \E t \in Tasks : Acquire(t)
    \/ \E t \in Tasks : Evict(t)
    \/ \E t \in Tasks : EvictPanic(t)
    \/ \E t \in Tasks : Dispatch(t)
    \/ \E t \in Tasks : RemoteOk(t)
    \/ \E t \in Tasks : RemoteOkPanic(t)
    \/ \E t \in Tasks : RemoteNoCandidate(t)
    \/ \E t \in Tasks : RemoteNoText(t)
    \/ \E t \in Tasks : RemoteErr(t)
    \/ \E t \in Tasks : Say(t)
    \/ \E t \in Tasks : SayFail(t)
    \/ \E t \in Tasks : SayErr(t)
    \/ \E t \in Tasks : Bonk(t)
    \/ \E t \in Tasks : SayBonk(t)
    \/ \E t \in Tasks : Retire(t)

\* the ceiling is too small for any turn or has room for a few
InitLive ==
    /\ HISTORY_MAX_TOKEN \in {SystemTokens - 1, MaxCeiling}
    /\ InitMain
    /\ PureOff

SpecLive ==
    /\ InitLive
    /\ [][NextLive]_vars
    /\ \A t \in Tasks : WF_vars(Run(t))

(***************************************************************************)
(* chat and mistral side by side: both histories start from the system     *)
(* turn, and every step runs one whole exchange of each flow on the same    *)
(* author, message and completion outcome, or resets both histories.        *)
(***************************************************************************)
MaxPairCmds == 4
MaxPairCeiling == 12

\* values of the HISTORY_MAX_TOKEN setting, one with room for two exchanges
PairCeilings == Ceilings \cup {MaxPairCeiling}

InitPair ==
    /\ HISTORY_MAX_TOKEN \in PairCeilings
    /\ InitMain
    /\ fArg = <<>>
    /\ fRet = <<>>
    /\ fOut = <<>>
    /\ fPc = "pair"

\* one /chat and one /mistral with the same input and the same outcome
PairExchange ==
    /\ fPc = "pair"
    /\ nCmds < MaxPairCmds
    /\ \E input \in ChatInputs, outcome \in Outcomes :
          history' =
              [p \in Providers |->
                  ExchangeHistory(history[p],
                                  [kind |-> IF p = "openai" THEN "chat"
                                            ELSE "mistral",
                                   author |-> input[1],
                                   message |-> input[2]],
                                  outcome)]
    /\ nCmds' = nCmds + 1
    /\ UNCHANGED <<HISTORY_MAX_TOKEN, owner, waitq, pc, cmd, request, text,
                   chunks, out, pre, reply, evicted, panic, pureVars>>

\* one /bonk and one /bonk_mistral
PairBonk ==
    /\ fPc = "pair"
    /\ nCmds < MaxPairCmds
    /\ history' = [p \in Providers |-> Truncate(history[p], 1)]
    /\ nCmds' = nCmds + 1
    /\ UNCHANGED <<HISTORY_MAX_TOKEN, owner, waitq, pc, cmd, request, text,
                   chunks, out, pre, reply, evicted, panic, pureVars>>

NextPair == PairExchange \/ PairBonk

SpecPair == InitPair /\ [][NextPair]_vars

(***************************************************************************)
(* sanitize_input on its own: every name over NameChars up to MaxNameLen   *)
(* characters, and names around the 64-character limit of the pattern.     *)
(***************************************************************************)
NameChars == {"a", "0", "_", "-", " ", MULTIBYTE}

RECURSIVE SeqsUpTo(_, _)
\* all sequences over S of length 0..n
SeqsUpTo(S, n) ==
    IF n = 0 THEN {<<>>}
    ELSE LET shorter == SeqsUpTo(S, n - 1)
         IN  shorter \cup {Append(q, c) : q \in {r \in shorter : Len(r) = n - 1},
                                          c \in S}

LongNames ==
    { Repeat("a", NAME_MAX - 1) \o tail :
        tail \in {<<"-">>, <<"-", "_">>, <<" ">>, <<"_", " ">>,
                  <<MULTIBYTE, "0">>} }

Names == SeqsUpTo(NameChars, MaxNameLen) \cup LongNames

MainFrozen ==
    /\ HISTORY_MAX_TOKEN = MaxCeiling
    /\ InitMain

InitSanitize ==
    /\ MainFrozen
    /\ fArg \in Names
    /\ fRet = <<>>
    /\ fOut = <<>>
    /\ fPc = "sanitize"

SanitizeCall ==
    /\ fPc = "sanitize"
    /\ fRet' = sanitize_input(fArg)
    /\ fPc' = "sanitized"
    /\ UNCHANGED <<mainVars, fArg, fOut>>

NextSanitize == SanitizeCall

SpecSanitize == InitSanitize /\ [][NextSanitize]_vars

(***************************************************************************)
(* The output block of main.rs:368-380 on its own: every text over a       *)
(* one-byte and a two-byte character up to MaxTextLen characters is split  *)
(* and its messages are passed to ctx.say one after the other.             *)
(***************************************************************************)
TextChars == {"a", MULTIBYTE}

Texts == SeqsUpTo(TextChars, MaxTextLen) \ {<<>>}

InitChunk ==
    /\ MainFrozen
    /\ fArg \in Texts
    /\ fRet = <<>>
    /\ fOut = <<>>
    /\ fPc = "split"

\* main.rs:368-374 (or the else branch): the messages to send
ChunkSplit ==
    /\ fPc = "split"
    /\ fRet' = Messages(fArg)
    /\ fPc' = "emit"
    /\ UNCHANGED <<mainVars, fArg, fOut>>

\* main.rs:375-377, 379: one ctx.say
ChunkSay ==
    /\ fPc = "emit"
    /\ fRet # <<>>
    /\ fOut' = Append(fOut, Head(fRet))
    /\ fRet' = Tail(fRet)
    /\ fPc' = IF Tail(fRet) = <<>> THEN "emitted" ELSE "emit"
    /\ UNCHANGED <<mainVars, fArg>>

NextChunk ==
    \/ ChunkSplit
    \/ ChunkSay

SpecChunk == InitChunk /\ [][NextChunk]_vars

(***************************************************************************)
(* Properties.                                                             *)
(***************************************************************************)
\* the provider a task's command works on
Prov(t) == ProviderOf(cmd[t].kind)

\* the history right after the task pushed its user turn
Start(t) == Append(pre[t], UserTurn(cmd[t]))

\* C1 (pin invariant): whatever exchanges and resets have run, each
\* provider's history is non-empty and its first element is the system turn
\* installed at startup.
PinInvariant ==
    \A p \in Providers :
        /\ Len(history[p]) >= 1
        /\ history[p][1] = SystemTurn

\* an enforcement has evicted every turn but the pinned one
PinWitness ==
    \E t \in Tasks :
        /\ pc[t] = "inflight"
        /\ evicted[t] >= 2
        /\ Len(history[Prov(t)]) = 1

\* C2 (budget convergence): with a ceiling of at least the system turn's
\* tokens, when the request is dispatched the token count of the history
\* and of the request's messages is at or below the ceiling.
BudgetConvergence ==
    \A t \in Tasks :
        (HISTORY_MAX_TOKEN >= SystemTokens /\ pc[t] = "inflight") =>
            /\ TokenCount(history[Prov(t)]) <= HISTORY_MAX_TOKEN
            /\ TokenCount(request[t]) <= HISTORY_MAX_TOKEN

\* a request is in flight whose history was over the ceiling after the push
BudgetWitness ==
    \E t \in Tasks :
        /\ pc[t] = "inflight"
        /\ HISTORY_MAX_TOKEN >= SystemTokens
        /\ TokenCount(Start(t)) > HISTORY_MAX_TOKEN
        /\ evicted[t] >= 1

\* C3 (eviction order): while an exchange holds the lock, the history is
\* the system turn followed by the non-pinned turns present after the push
\* minus the oldest `evicted` of them, in their original order.
EvictionOrder ==
    \A t \in Tasks :
        pc[t] \in {"enforce", "inflight", "say_err"} =>
            /\ evicted[t] <= Len(Start(t)) - 1
            /\ history[Prov(t)] =
                  <<Start(t)[1]>> \o
                  SubSeq(Start(t), 2 + evicted[t], Len(Start(t)))

\* two turns were evicted and a non-pinned turn is left
EvictionWitness ==
    \E t \in Tasks :
        /\ pc[t] = "inflight"
        /\ evicted[t] = 2
        /\ Len(history[Prov(t)]) >= 2

\* C4 as stated (failure non-mutation): after a failed dispatch the
\* history is one turn longer than before the exchange.
FailureLengthPlusOne ==
    \A t \in Tasks :
        pc[t] = "say_err" =>
            Len(history[Prov(t)]) = Len(pre[t]) + 1

\* C4 as amended: after a failed dispatch the history is exactly what
\* enforcement left and the request carried, no assistant turn added; its
\* length is the length before the exchange plus 1 minus the evictions.
FailureNonMutation ==
    \A t \in Tasks :
        pc[t] = "say_err" =>
            /\ history[Prov(t)] = request[t]
            /\ Len(history[Prov(t)]) = Len(pre[t]) + 1 - evicted[t]
            /\ \A i \in 2..Len(history[Prov(t)]) :
                  history[Prov(t)][i] = Start(t)[i + evicted[t]]

\* a dispatch failed after enforcement had evicted a turn
FailureWitness ==
    \E t \in Tasks :
        /\ pc[t] = "say_err"
        /\ evicted[t] >= 1
        /\ Len(pre[t]) >= 2

\* the tasks between lock acquisition and the result of the remote call
InExchange(p) ==
    {t \in Tasks : pc[t] \in {"enforce", "inflight"} /\ Prov(t) = p}

\* C5 (per-provider mutual exclusion): at most one task per provider is
\* between acquiring the lock and receiving the remote result.
MutualExclusion ==
    \A p \in Providers : Cardinality(InExchange(p)) <= 1

\* a completion is in flight while another chat command of the same
\* provider waits for the lock
MutexWitness ==
    \E t, u \in Tasks :
        /\ t # u
        /\ pc[t] = "inflight"
        /\ pc[u] = "lock"
        /\ cmd[u].kind \in ChatKinds
        /\ Prov(u) = Prov(t)

\* C6 (reset): the step in which a bonk truncates leaves its provider's
\* history as the one-element sequence of the system turn, and leaves a
\* history of length 1 as it was.
ResetToSystemTurn ==
    [][\A t \in Tasks :
          (pc[t] = "lock" /\ pc'[t] = "say_bonk") =>
              /\ history'[Prov(t)] = <<SystemTurn>>
              /\ Len(history[Prov(t)]) = 1 => history' = history]_vars

\* a reset ran on a history that held more than the system turn
ResetWitness ==
    \E t \in Tasks :
        /\ pc[t] = "say_bonk"
        /\ Len(pre[t]) >= 3

\* the cleanup C7 describes: one leading and one trailing quotation mark
\* removed
StripLeadingQuote(r) ==
    IF r # <<>> /\ r[1] = QUOTE THEN SubSeq(r, 2, Len(r)) ELSE r
StripTrailingQuote(r) ==
    IF r # <<>> /\ r[Len(r)] = QUOTE THEN SubSeq(r, 1, Len(r) - 1) ELSE r
StripQuotes(r) == StripTrailingQuote(StripLeadingQuote(r))

\* C7 (reply cleanup): when a reply arrives, the assistant turn pushed and
\* the text formatted for output hold the reply with one leading and one
\* trailing quotation mark removed and every other character kept.
ReplyCleanup ==
    [][\A t \in Tasks :
          (pc[t] = "inflight" /\ pc'[t] = "say") =>
              /\ history'[Prov(t)] =
                    Append(history[Prov(t)],
                           AssistantTurn(StripQuotes(reply'[t])))
              /\ text'[t] = replace_emoji(Format(cmd[t].message,
                                                 StripQuotes(reply'[t])))]_vars

\* C8 (chunk round-trip): the messages emitted for a text concatenate to
\* the text, none is longer than the limit, all but the last have exactly
\* the limit's length, and there are ceil(length / limit) of them.
ChunkRoundTrip ==
    fPc = "emitted" =>
        /\ Concat(fOut) = fArg
        /\ \A i \in 1..Len(fOut) : Len(fOut[i]) <= DISCORD_CHAR_LIMIT
        /\ \A i \in 1..(Len(fOut) - 1) : Len(fOut[i]) = DISCORD_CHAR_LIMIT
        /\ Len(fOut) =
              (Len(fArg) + DISCORD_CHAR_LIMIT - 1) \div DISCORD_CHAR_LIMIT

\* a text with a two-byte character was emitted as three messages, the
\* last one shorter than the limit
ChunkWitness ==
    /\ fPc = "emitted"
    /\ Len(fOut) = 3
    /\ Len(fOut[3]) < DISCORD_CHAR_LIMIT
    /\ \E i \in 1..Len(fArg) : fArg[i] = MULTIBYTE

\* the characters C9 allows in a name
NameAlphabet == {"a", "b", "s", "B", "Z", "0", "9", "_", "-"}

RECURSIVE KeepAllowed(_)
\* a name without its disallowed characters
KeepAllowed(n) ==
    IF n = <<>> THEN <<>>
    ELSE IF Head(n) \in NameAlphabet
         THEN <<Head(n)>> \o KeepAllowed(Tail(n))
         ELSE KeepAllowed(Tail(n))

\* C9 (sanitization): a name of 1 to 64 allowed characters is returned
\* unchanged; a name with disallowed characters is returned without them,
\* the allowed ones kept in order.
Sanitization ==
    fPc = "sanitized" =>
        /\ (/\ Len(fArg) \in 1..64
            /\ \A i \in 1..Len(fArg) : fArg[i] \in NameAlphabet) => fRet = fArg
        /\ (\E i \in 1..Len(fArg) : fArg[i] \notin NameAlphabet) =>
              fRet = KeepAllowed(fArg)

\* a name mixing hyphens with disallowed characters was sanitized
SanitizationWitness ==
    /\ fPc = "sanitized"
    /\ \E i \in 1..Len(fArg) : fArg[i] = "-"
    /\ \E i \in 1..Len(fArg) : fArg[i] \notin NameAlphabet
    /\ fRet # fArg

\* C10 (ceiling too small): with a ceiling below the system turn's tokens
\* no handler is aborted by the enforcement loop.
CeilingTooSmallIsAnError ==
    \A t \in Tasks :
        HISTORY_MAX_TOKEN < SystemTokens =>
            ~(pc[t] = "panicked" /\ panic[t] = "remove_out_of_range")

\* C11 as stated (stored-history bound): with a ceiling of at least the
\* system turn's tokens, whenever no exchange holds a provider's lock the
\* history starts with the system turn and its token count is at or below
\* the ceiling.
StoredHistoryWithinCeiling ==
    \A p \in Providers :
        (HISTORY_MAX_TOKEN >= SystemTokens /\ owner[p] = NoTask) =>
            /\ history[p][1] = SystemTurn
            /\ TokenCount(history[p]) <= HISTORY_MAX_TOKEN

\* a history without its last turn
ButLast(h) == SubSeq(h, 1, Len(h) - 1)

\* C11 as amended: at rest the history starts with the system turn and is
\* within the ceiling once the assistant turn pushed after enforcement, if
\* it is the last turn, is left out of the count.
StoredHistoryBound ==
    \A p \in Providers :
        (HISTORY_MAX_TOKEN >= SystemTokens /\ owner[p] = NoTask) =>
            /\ history[p][1] = SystemTurn
            /\ \/ TokenCount(history[p]) <= HISTORY_MAX_TOKEN
               \/ /\ history[p][Len(history[p])].role = "assistant"
                  /\ TokenCount(ButLast(history[p])) <= HISTORY_MAX_TOKEN

\* a history at rest that an exchange trimmed and that its reply then
\* pushed over the ceiling
StoredHistoryWitness ==
    \E p \in Providers :
        /\ owner[p] = NoTask
        /\ HISTORY_MAX_TOKEN >= SystemTokens
        /\ TokenCount(history[p]) > HISTORY_MAX_TOKEN
        /\ \E t \in Tasks : pc[t] = "say" /\ Prov(t) = p /\ evicted[t] >= 1

\* the commands that work on HISTORY; the others work on MISTRAL_HISTORY
OnPrimary(t) == cmd[t].kind \in {"chat", "bonk"}

\* task t called lock() before task u on the same mutex and still waits
QueuedBefore(t, u) ==
    \E p \in Providers :
        \E i, j \in 1..Len(waitq[p]) :
            i < j /\ waitq[p][i] = t /\ waitq[p][j] = u

\* C12 (provider independence): a command waiting for its provider's lock
\* can take it unless a command of the same provider holds the lock or
\* waits ahead of it; commands of the other provider never block it.
ProviderIndependence ==
    \A u \in Tasks :
        (pc[u] = "lock" /\ ~ENABLED (Acquire(u) \/ Bonk(u))) =>
            \E t \in Tasks \ {u} :
                /\ OnPrimary(t) = OnPrimary(u)
                /\ \/ pc[t] \in {"enforce", "inflight", "say_err"}
                   \/ QueuedBefore(t, u)

\* one completion is in flight on each provider
BothInFlightWitness ==
    \E t, u \in Tasks :
        /\ pc[t] = "inflight" /\ cmd[t].kind = "chat"
        /\ pc[u] = "inflight" /\ cmd[u].kind = "mistral"
        /\ owner["openai"] = t
        /\ owner["mistral"] = u

\* C13 (dispatch failures are recoverable): no handler is aborted by a
\* response without a candidate or by a candidate without text; such an
\* exchange ends like a failed dispatch.
DispatchFailureRecoverable ==
    \A t \in Tasks :
        pc[t] = "panicked" => panic[t] \notin {"no_candidate", "no_text"}

\* C14 (exchange atomicity): while a task holds a provider's lock only its
\* own steps change that history, and when it lets go the history is what
\* the whole exchange, run on its own from the history found at
\* acquisition, produces.
ExchangeAtomicity ==
    [][\A p \in Providers :
          owner[p] # NoTask =>
              LET t == owner[p] IN
              /\ history'[p] # history[p] =>
                    \A u \in Tasks \ {t} : pc'[u] = pc[u]
              /\ owner'[p] # t =>
                    history'[p] =
                        ExchangeHistory(pre[t], cmd[t],
                            IF pc'[t] = "say"
                            THEN [kind |-> "ok", reply |-> reply'[t]]
                            ELSE [kind |-> "err", reply |-> <<>>])]_vars

\* an exchange that evicted is in flight while a reset of the same
\* provider waits for the lock
AtomicityWitness ==
    \E t, u \in Tasks :
        /\ pc[t] = "inflight"
        /\ evicted[t] >= 1
        /\ pc[u] = "lock"
        /\ cmd[u].kind \in BonkKinds
        /\ Prov(u) = Prov(t)

\* C15 (progress): under fair scheduling and with every awaited call
\* returning, the handler of a command that asked for its provider's lock
\* comes to an end, which it only does by way of taking the lock, and a
\* lock that is held is let go; and while a completion stays in flight no
\* waiting command of that provider gets past lock().
Progress ==
    /\ \A t \in Tasks :
          (pc[t] = "lock") ~> (pc[t] \in {"ok", "err", "panicked"})
    /\ \A p \in Providers :
          (owner[p] # NoTask) ~> (owner[p] = NoTask)
    /\ [][\A t \in Tasks :
             /\ pc[t] = "lock" => pc'[t] \in {"lock", "enforce", "say_bonk"}
             /\ (pc[t] = "inflight" /\ pc'[t] = "inflight") =>
                   \A u \in Tasks \ {t} :
                       (pc[u] = "lock" /\ Prov(u) = Prov(t)) =>
                           pc'[u] = "lock"]_vars

\* every command has been submitted and one of them waits in the queue
\* behind a completion in flight
ProgressWitness ==
    \E t, u \in Tasks :
        /\ pc[t] = "inflight"
        /\ pc[u] = "lock"
        /\ Prov(u) = Prov(t)
        /\ waitq[Prov(t)] # <<>> /\ Head(waitq[Prov(t)]) = u
        /\ nCmds = MaxCmds

\* C16 (enforcement termination): with a ceiling of at least the system
\* turn's tokens, every iteration of the loop shortens the history by one
\* turn, the loop has run at most (length after the push - 1) times, and
\* once it has run that often it cannot run again or panic: the request is
\* dispatched.
EnforcementTermination ==
    \A t \in Tasks :
        HISTORY_MAX_TOKEN >= SystemTokens =>
            /\ panic[t] # "remove_out_of_range"
            /\ pc[t] = "enforce" =>
                  /\ evicted[t] <= Len(Start(t)) - 1
                  /\ Len(history[Prov(t)]) = Len(Start(t)) - evicted[t]
                  /\ evicted[t] = Len(Start(t)) - 1 =>
                        /\ ~ENABLED Evict(t)
                        /\ ~ENABLED EvictPanic(t)
                        /\ ENABLED Dispatch(t)

\* the loop has evicted every turn but the pinned one and stops
TerminationWitness ==
    \E t \in Tasks :
        /\ pc[t] = "enforce"
        /\ HISTORY_MAX_TOKEN >= SystemTokens
        /\ evicted[t] >= 2
        /\ evicted[t] = Len(Start(t)) - 1

\* task t is sending, or has stopped sending, the messages of a reply
Replying(t) ==
    \/ pc[t] = "say"
    \/ pc[t] \in {"ok", "err"} /\ text[t] # <<>>

\* C17 as stated (ordered emission): the messages of a reply are sent in
\* index order one at a time, and between the first and the last of them no
\* other task sends anything.
OrderedExclusiveEmission ==
    [][\A t \in Tasks :
          /\ Replying(t)' =>
                /\ Len(out'[t]) \in {Len(out[t]), Len(out[t]) + 1}
                /\ out'[t] = SubSeq(Messages(text'[t]), 1, Len(out'[t]))
          /\ (pc[t] = "say" /\ out[t] # <<>>) =>
                \A u \in Tasks \ {t} : Len(out'[u]) <= Len(out[u])]_vars

\* C17 as amended: the messages of a reply are sent in index order one at
\* a time, a reply that was sent completely was sent whole, and other tasks
\* may send in between.
OrderedEmission ==
    [][\A t \in Tasks :
          Replying(t)' =>
              /\ Len(out'[t]) \in {Len(out[t]), Len(out[t]) + 1}
              /\ out'[t] = SubSeq(Messages(text'[t]), 1, Len(out'[t]))
              /\ pc'[t] = "ok" => out'[t] = Messages(text'[t])
              /\ pc'[t] = "say" => Len(out'[t]) < Len(Messages(text'[t]))]_vars

\* a reply is two messages into its emission while another task has sent
\* output too
EmissionWitness ==
    \E t, u \in Tasks :
        /\ t # u
        /\ pc[t] = "say"
        /\ Len(out[t]) >= 2
        /\ out[u] # <<>>

\* C18 (stored author-name validity): every stored turn that carries a name
\* carries one of 1 to 64 characters, all of them allowed.
StoredNamesValid ==
    \A p \in Providers : \A i \in 1..Len(history[p]) :
        \A n \in history[p][i].name :
            /\ Len(n) \in 1..NAME_MAX
            /\ \A k \in 1..Len(n) : n[k] \in NameAlphabet

\* C19 (single-chunk case): a text of at most DISCORD_CHAR_LIMIT characters
\* is emitted as exactly one message equal to the text, whatever its byte
\* length.
SingleChunk ==
    (fPc = "emitted" /\ Len(fArg) <= DISCORD_CHAR_LIMIT) => fOut = <<fArg>>

\* a text within the limit in characters and over it in bytes was emitted
SingleChunkWitness ==
    /\ fPc = "emitted"
    /\ Len(fArg) <= DISCORD_CHAR_LIMIT
    /\ ByteLen(fArg) > DISCORD_CHAR_LIMIT
    /\ Len(fOut) = 1

\* C20 as stated (provider equivalence): fed the same inputs and outcomes,
\* the two histories are equal turn for turn in role, content and name.
StoresEqual ==
    fPc = "pair" => history["openai"] = history["mistral"]

\* the names chat can store for the authors of ChatInputs
SanitizedAuthors == {sanitize_input(input[1]) : input \in ChatInputs}

\* C20 as amended: both histories begin with the system turn; the openai
\* history is never the longer one; counted from the newest turn, the turns
\* of the openai history equal those of the mistral history in role and
\* content; a user turn carries its author's sanitized name in the openai
\* history and no name in the mistral history.
StoresCorrespond ==
    fPc = "pair" =>
        LET ho == history["openai"]
            hm == history["mistral"]
            d  == Len(hm) - Len(ho)
        IN  /\ ho[1] = SystemTurn /\ hm[1] = SystemTurn
            /\ d >= 0
            /\ \A i \in 2..Len(ho) :
                  /\ ho[i].role = hm[i + d].role
                  /\ ho[i].content = hm[i + d].content
                  /\ ho[i].role = "user" => ho[i].name \subseteq SanitizedAuthors
                                            /\ ho[i].name # {}
                  /\ ho[i].role # "user" => ho[i].name = {}
            /\ \A j \in 2..Len(hm) : hm[j].name = {}

\* after the same exchanges the openai history has kept fewer turns than
\* the mistral history, and still holds a named user turn
PairWitness ==
    /\ fPc = "pair"
    /\ Len(history["openai"]) < Len(history["mistral"])
    /\ \E i \in 2..Len(history["openai"]) :
          /\ history["openai"][i].role = "user"
          /\ history["openai"][i].name # {}

\* C21 (the answered turn is dispatched): with a ceiling of at least the
\* system turn's tokens, the request in flight ends with the user turn its
\* own exchange pushed.
AnsweredTurnDispatched ==
    \A t \in Tasks :
        (pc[t] = "inflight" /\ HISTORY_MAX_TOKEN >= SystemTokens) =>
            /\ request[t] # <<>>
            /\ request[t][Len(request[t])] = UserTurn(cmd[t])

\* C22 (lock released before sending): a task that is about to send reply
\* messages or the fallback message does not hold its provider's lock.
GuardReleasedBeforeSend ==
    \A t \in Tasks :
        pc[t] \in {"say", "say_err"} => owner[Prov(t)] # t

====
